---- MODULE Spec2Model ----
(***************************************************************************)
(* The client-side authentication orchestrator (the useAuth hook of        *)
(* src/src/app/layout.tsx): one mutation per authentication flow, the      *)
(* shared query cache holding the session, the redirect resolver, and the  *)
(* effects (cache calls, router.push, toasts) of every completion handler. *)
(***************************************************************************)
EXTENDS Naturals, Sequences, FiniteSets, Bags, TLC

(***************************************************************************)
(* JavaScript values.  Strings are TLA+ strings; a missing string field is *)
(* Undef or Nul; a missing object (user, session) is UndefinedV or NullV.  *)
(***************************************************************************)
Undef == "<undefined>"
Nul == "<null>"
UndefinedV == [js |-> "undefined"]
NullV == [js |-> "null"]

\* JavaScript truthiness of a string-valued field: undefined, null and ''
\* are falsy.
Truthy(v) == v \notin {Undef, Nul, ""}

\* JavaScript truthiness of an object-valued field.
IsObject(v) == v \notin {UndefinedV, NullV}

\* a || d
OrElse(v, d) == IF Truthy(v) THEN v ELSE d

(***************************************************************************)
(* Text.  A string literal is decoded into its characters by Chars; a text *)
(* built by concatenation is the sequence of its pieces, and Flat gives    *)
(* its characters.  Includes is String.prototype.includes.                 *)
(***************************************************************************)
Chars(s) ==
    CASE s = "" -> <<>>
      [] s = "/auth/" -> <<"/", "a", "u", "t", "h", "/">>
      [] s = "401" -> <<"4", "0", "1">>
      [] s = "Session" -> <<"S", "e", "s", "s", "i", "o", "n">>
      [] s = "session" -> <<"s", "e", "s", "s", "i", "o", "n">>
      [] s = "/dashboard/x" -> <<"/", "d", "a", "s", "h", "b", "o", "a", "r", "d", "/", "x">>
      [] s = "/auth/callback" -> <<"/", "a", "u", "t", "h", "/", "c", "a", "l", "l", "b", "a", "c", "k">>
      [] s = "/help/auth/faq" -> <<"/", "h", "e", "l", "p", "/", "a", "u", "t", "h", "/", "f", "a", "q">>
      [] s = "/auth" -> <<"/", "a", "u", "t", "h">>
      [] s = "/auth/login" -> <<"/", "a", "u", "t", "h", "/", "l", "o", "g", "i", "n">>
      [] s = "/settings" -> <<"/", "s", "e", "t", "t", "i", "n", "g", "s">>
      [] s = "https://app.example/auth/login" -> <<"h", "t", "t", "p", "s", ":", "/", "/", "a", "p", "p", ".", "e", "x", "a", "m", "p", "l", "e", "/", "a", "u", "t", "h", "/", "l", "o", "g", "i", "n">>
      [] s = "No active session" -> <<"N", "o", " ", "a", "c", "t", "i", "v", "e", " ", "s", "e", "s", "s", "i", "o", "n">>
      [] s = "Session expired" -> <<"S", "e", "s", "s", "i", "o", "n", " ", "e", "x", "p", "i", "r", "e", "d">>
      [] s = "401 Unauthorized" -> <<"4", "0", "1", " ", "U", "n", "a", "u", "t", "h", "o", "r", "i", "z", "e", "d">>
      [] s = "Network error" -> <<"N", "e", "t", "w", "o", "r", "k", " ", "e", "r", "r", "o", "r">>
      [] s = "Unauthorized" -> <<"U", "n", "a", "u", "t", "h", "o", "r", "i", "z", "e", "d">>
      [] s = "Welcome back" -> <<"W", "e", "l", "c", "o", "m", "e", " ", "b", "a", "c", "k">>
      [] s = "Welcome" -> <<"W", "e", "l", "c", "o", "m", "e">>
      [] s = ", " -> <<",", " ">>
      [] s = "!" -> <<"!">>
      [] s = "Jo" -> <<"J", "o">>
      [] s = "Al" -> <<"A", "l">>
      [] s = "Dr Jo" -> <<"D", "r", " ", "J", "o">>

RECURSIVE Flat(_)
Flat(pieces) ==
    IF pieces = <<>> THEN <<>> ELSE Chars(Head(pieces)) \o Flat(Tail(pieces))

\* haystack.includes(needle), both given as character sequences
IncludesChars(h, n) ==
    \E i \in 0..Len(h) :
        /\ i + Len(n) <= Len(h)
        /\ SubSeq(h, i + 1, i + Len(n)) = n

\* s.includes(sub) for two strings
Includes(s, sub) == IncludesChars(Chars(s), Chars(sub))

(***************************************************************************)
(* Roles and routes.                                                       *)
(***************************************************************************)
Role == {"SUPER_ADMIN", "CLINIC_ADMIN", "DOCTOR", "RECEPTIONIST", "PATIENT"}

LoginPath == "/auth/login"

\* The role-to-dashboard mapping of '@/config/routes' (imported at
\* layout.tsx:71): one configured path per Role, nothing for any other
\* value.
getDashboardByRole(role) ==
    CASE role = "SUPER_ADMIN" -> "/super-admin/dashboard"
      [] role = "CLINIC_ADMIN" -> "/clinic-admin/dashboard"
      [] role = "DOCTOR" -> "/doctor/dashboard"
      [] role = "RECEPTIONIST" -> "/receptionist/dashboard"
      [] role = "PATIENT" -> "/patient/dashboard"
      [] OTHER -> Undef

\* user?.role
RoleOf(user) == IF IsObject(user) THEN user.role ELSE Undef

getRedirectPath_RoleFirst(user, redirectUrl) ==
    IF Truthy(RoleOf(user)) THEN getDashboardByRole(RoleOf(user))
    ELSE IF Truthy(redirectUrl) /\ ~Includes(redirectUrl, "/auth/") THEN redirectUrl
    ELSE LoginPath

getRedirectPath(user, redirectUrl) ==
    IF Truthy(redirectUrl) /\ ~Includes(redirectUrl, "/auth/") THEN redirectUrl
    ELSE IF Truthy(RoleOf(user)) THEN getDashboardByRole(RoleOf(user))
    ELSE LoginPath

(***************************************************************************)
(* The shared query cache (QueryProvider): the data under ['session'],     *)
(* whether that query is invalidated (a refetch is due), and whether any   *)
(* other query key holds data.                                             *)
(***************************************************************************)
EmptyCache == [session |-> UndefinedV, invalidated |-> FALSE, other |-> FALSE]

setQueryData_Merge(c, data) ==
    [c EXCEPT !.session = IF IsObject(@) /\ IsObject(data)
                          THEN [data EXCEPT !.token = c.session.token]
                          ELSE data,
              !.invalidated = FALSE]

\* queryClient.setQueryData(['session'], data)
setQueryData(c, data) == [c EXCEPT !.session = data, !.invalidated = FALSE]

\* queryClient.invalidateQueries({ queryKey: ['session'] })
invalidateQueries(c) == [c EXCEPT !.invalidated = TRUE]

\* queryClient.clear()
clear(c) == EmptyCache

(***************************************************************************)
(* Effects of a completion handler, in program order.                      *)
(***************************************************************************)
SetSession(data) == [e |-> "setQueryData", data |-> data]
Invalidate == [e |-> "invalidateQueries"]
ClearAll == [e |-> "clear"]
Push(path) == [e |-> "push", path |-> path]
Toast(kind, text) == [e |-> "toast", kind |-> kind, text |-> text]

ApplyEffect(c, ef) ==
    CASE ef.e = "setQueryData" -> setQueryData(c, ef.data)
      [] ef.e = "invalidateQueries" -> invalidateQueries(c)
      [] ef.e = "clear" -> clear(c)
      [] OTHER -> c

RECURSIVE Run(_, _)
Run(c, effects) ==
    IF effects = <<>> THEN c
    ELSE Run(ApplyEffect(c, Head(effects)), Tail(effects))

(***************************************************************************)
(* Data returned by the remote action bindings ('@/lib/actions/auth.server')*)
(***************************************************************************)
Emails == {"a@b.com", "c@d.com"}

\* a sparse profile: only the required fields are set
UserA ==
    [id |-> "u-a", email |-> "a@b.com", role |-> "DOCTOR", firstName |-> "Jo",
     lastName |-> Undef, phone |-> Undef, dateOfBirth |-> Undef,
     gender |-> Undef, address |-> Undef, name |-> "Dr Jo"]

\* a complete profile
UserC ==
    [id |-> "u-c", email |-> "c@d.com", role |-> "PATIENT", firstName |-> "Al",
     lastName |-> "Li", phone |-> "5550100100", dateOfBirth |-> "1990-01-01",
     gender |-> "FEMALE", address |-> "1 Main St", name |-> Undef]

\* a profile with falsy fields and no role
UserNoRole ==
    [id |-> "u-c", email |-> "c@d.com", role |-> Undef, firstName |-> "",
     lastName |-> Nul, phone |-> "", dateOfBirth |-> "",
     gender |-> Undef, address |-> Undef, name |-> Undef]

\* AuthResponse: { user, token?, redirectUrl?, message? }
AuthResp(user, token, redirectUrl, message) ==
    [user |-> user, token |-> token, redirectUrl |-> redirectUrl,
     message |-> message]

Resolved(val) == [ok |-> TRUE, val |-> val]
Rejected(message) == [ok |-> FALSE, val |-> [message |-> message]]

\* what a rejected binding carries: an Error with a message, possibly empty
ErrorMessages == {"Network error", ""}
Rejections == {Rejected(m) : m \in ErrorMessages}

\* what loginAction answers for the credentials of `email`
LoginResponses(email) ==
    IF email = "a@b.com"
    THEN {AuthResp(UserA, "tok-a", Undef, Undef),
          AuthResp(UndefinedV, Undef, Undef, Undef)}
    ELSE {AuthResp(UserC, "tok-c", "/dashboard/x", Undef),
          AuthResp(UserNoRole, "tok-c", "/auth/callback", Undef),
          AuthResp(NullV, Undef, Undef, Undef)}

\* what verifyOTP, socialLogin, verifyMagicLink, facebookLogin and
\* registerWithClinic answer
AuthResponses ==
    {AuthResp(UserA, "tok-a", "/dashboard/x", Undef),
     AuthResp(UserC, "tok-c", "/auth/callback", Undef),
     AuthResp(UserNoRole, "tok-c", "/help/auth/faq", Undef),
     AuthResp(UndefinedV, Undef, Undef, Undef)}

\* GoogleLoginResponse: the user is required
GoogleLoginResponses == {r \in AuthResponses : IsObject(r.user)}

\* answers that carry only an optional message
MessageResponses ==
    {AuthResp(UndefinedV, Undef, Undef, m) : m \in {Undef, "Check your inbox"}}

\* what getServerSession answers
ServerSessions == {NullV, AuthResp(UserA, Undef, Undef, Undef)}

\* messages of the errors logoutAction rejects with
LogoutErrorMessages ==
    {"No active session", "Session expired", "401 Unauthorized",
     "Unauthorized", "Network error", ""}

(***************************************************************************)
(* The completion handlers.  A mutationFn maps the remote outcome to the   *)
(* mutation's result; onSuccess / onError give the effects in order.       *)
(***************************************************************************)
loginMutation_normalize(user) ==
    [user EXCEPT !.firstName = OrElse(@, ""),
                 !.lastName = OrElse(@, ""),
                 !.phone = OrElse(@, ""),
                 !.dateOfBirth = OrElse(@, Nul),
                 !.gender = OrElse(@, ""),
                 !.address = OrElse(@, "")]

loginMutation_mutationFn(remote) ==
    IF ~remote.ok THEN remote
    ELSE IF ~IsObject(remote.val.user)
    THEN Rejected("Invalid user data received")
    ELSE Resolved([remote.val EXCEPT !.user = loginMutation_normalize(@)])

loginMutation_onSuccess_UseRedirect(data) ==
    << SetSession(data),
       Push(getRedirectPath(data.user, data.redirectUrl)),
       Toast("success", <<"Welcome back", "!">>) >>

loginMutation_onSuccess_PushFirst(data) ==
    << Push(getDashboardByRole(data.user.role)),
       SetSession(data),
       Toast("success", <<"Welcome back", "!">>) >>

loginMutation_onSuccess(data) ==
    << SetSession(data),
       Push(getDashboardByRole(data.user.role)),
       Toast("success",
             <<"Welcome back">>
             \o (IF Truthy(data.user.firstName)
                 THEN <<", ", data.user.firstName>> ELSE <<"">>)
             \o <<"!">>) >>

loginMutation_onError_Redirect(error) ==
    << Toast("error", <<OrElse(error.message, "Login failed")>>),
       Push(LoginPath) >>

loginMutation_onError(error) ==
    << Toast("error", <<OrElse(error.message, "Login failed")>>) >>

googleLogin_onSuccess(data) ==
    << Invalidate,
       Push(getRedirectPath(data.user, data.redirectUrl)),
       Toast("success",
             <<"Welcome">>
             \o (IF Truthy(data.user.name)
                 THEN <<", ", data.user.name>> ELSE <<"">>)
             \o <<"!">>) >>

googleLogin_onError(error) == << Toast("error", <<error.message>>) >>

registerMutation_onSuccess_AutoLogin ==
    << Invalidate,
       Toast("success", <<"Registration successful">>),
       Push("/auth/login") >>

registerMutation_onSuccess ==
    << Toast("success",
             <<"Registration successful. Please check your email to verify your account.">>),
       Push("/auth/login") >>

registerMutation_onError(error) ==
    << Toast("error", <<OrElse(error.message, "Registration failed")>>) >>

logoutMutation_isBenign_Only401(error) == Includes(error.message, "401")

\* the catch clause's test: a 401 or session-related error
logoutMutation_isBenign(error) ==
    \/ Includes(error.message, "401")
    \/ Includes(error.message, "Session")
    \/ Includes(error.message, "session")

logoutMutation_mutationFn(remote) ==
    IF remote.ok THEN Resolved([success |-> TRUE])
    ELSE IF logoutMutation_isBenign(remote.val)
    THEN Resolved([success |-> TRUE])
    ELSE remote

logoutMutation_onSuccess ==
    << ClearAll,
       SetSession(NullV),
       Push("/auth/login"),
       Toast("success", <<"Logged out successfully">>) >>

logoutMutation_onError_NoClear(error) ==
    << Toast("error", <<"Logged out locally, but server logout failed">>) >>

logoutMutation_onError(error) ==
    << ClearAll,
       SetSession(NullV),
       Push("/auth/login"),
       Toast("error", <<"Logged out locally, but server logout failed">>) >>

registerWithClinic_onSuccess_RedirectFirst(data) ==
    << Invalidate,
       Push(getRedirectPath(data.user, data.redirectUrl)),
       Toast("success", <<"Registration successful">>) >>

registerWithClinic_onSuccess(data) ==
    << Invalidate,
       IF Truthy(RoleOf(data.user))
       THEN Push(getDashboardByRole(data.user.role))
       ELSE IF Truthy(data.redirectUrl)
       THEN Push(data.redirectUrl)
       ELSE Push("/auth/login?registered=true"),
       Toast("success", <<"Registration successful">>) >>

registerWithClinic_onError(error) == << Toast("error", <<error.message>>) >>

verifyOTP_onSuccess_NoInvalidate(data) ==
    << Push(getRedirectPath(data.user, data.redirectUrl)),
       Toast("success", <<"OTP verified successfully! Welcome back!">>) >>

verifyOTP_onSuccess(data) ==
    << Invalidate,
       Push(getRedirectPath(data.user, data.redirectUrl)),
       Toast("success", <<"OTP verified successfully! Welcome back!">>) >>

verifyOTP_onError(error) == << Toast("error", <<error.message>>) >>

requestOTP_onSuccess(data) ==
    << Toast("success", <<data.message>>), Invalidate >>

requestOTP_onError(error) == << Toast("error", <<error.message>>) >>

forgotPassword_onSuccess(data) ==
    << Toast("success",
             <<OrElse(data.message, "Password reset instructions sent to your email")>>) >>

forgotPassword_onError(error) == << Toast("error", <<error.message>>) >>

resetPassword_onSuccess(data) ==
    << Push("/auth/login?reset=true"),
       Toast("success", <<OrElse(data.message, "Password reset successful")>>) >>

resetPassword_onError(error) == << Toast("error", <<error.message>>) >>

socialLogin_onSuccess(data) ==
    << Invalidate,
       Push(getRedirectPath(data.user, data.redirectUrl)),
       Toast("success", <<"Logged in successfully">>) >>

socialLogin_onError(error) == << Toast("error", <<error.message>>) >>

requestMagicLink_onSuccess(data) ==
    << Toast("success", <<OrElse(data.message, "Magic link sent to your email")>>) >>

requestMagicLink_onError(error) == << Toast("error", <<error.message>>) >>

verifyMagicLink_onSuccess(data) ==
    << Invalidate,
       Push(getRedirectPath(data.user, data.redirectUrl)),
       Toast("success", <<"Logged in successfully">>) >>

verifyMagicLink_onError(error) == << Toast("error", <<error.message>>) >>

changePassword_onSuccess ==
    << Invalidate, Toast("success", <<"Password changed successfully">>) >>

changePassword_onError(error) == << Toast("error", <<error.message>>) >>

terminateAllSessionsMutation_onSuccess ==
    << ClearAll,
       SetSession(NullV),
       Push("/auth/login"),
       Toast("success", <<"All sessions terminated successfully">>) >>

terminateAllSessionsMutation_onError(error) ==
    << Toast("error",
             <<OrElse(error.message, "Failed to terminate all sessions")>>) >>

checkOTPStatus_onError(error) == << Toast("error", <<error.message>>) >>

invalidateOTP_onSuccess(data) == << Toast("success", <<data.message>>) >>

invalidateOTP_onError(error) == << Toast("error", <<error.message>>) >>

verifyEmail_onSuccess(data) ==
    << Invalidate, Toast("success", <<data.message>>), Push("/auth/login") >>

verifyEmail_onError(error) == << Toast("error", <<error.message>>) >>

facebookLogin_onSuccess(data) ==
    << Invalidate,
       Push(getRedirectPath(data.user, data.redirectUrl)),
       Toast("success", <<"Logged in with Facebook successfully">>) >>

facebookLogin_onError_Invalidate(error) ==
    << Invalidate, Toast("error", <<error.message>>) >>

facebookLogin_onError(error) == << Toast("error", <<error.message>>) >>

(***************************************************************************)
(* The state.                                                              *)
(*   cache    the shared query cache                                       *)
(*   pending  the bag of calls in flight                                   *)
(*   last     the latest event: a call that started, or a call that        *)
(*            completed, with the remote outcome, whether the mutation     *)
(*            succeeded, the handler's effects in order, the value         *)
(*            returned, whether the promise handed to the caller rejected, *)
(*            and, for a login's completion, whether it is the first event *)
(*            after the completion of a logout                             *)
(***************************************************************************)
VARIABLES cache, pending, last

vars == <<cache, pending, last>>

MaxInFlight == 2

\* the operations useAuth returns whose argument no handler reads
PlainOps ==
    {"register", "logout", "verifyOTP", "requestOTP", "forgotPassword",
     "resetPassword", "changePassword", "requestMagicLink", "verifyMagicLink",
     "registerWithClinic", "terminateAllSessions", "checkOTPStatus",
     "invalidateOTP", "verifyEmail", "googleLogin", "facebookLogin",
     "appleLogin", "socialLogin"}

Call(op) == [op |-> op, arg |-> Undef]
LoginCall(email) == [op |-> "login", arg |-> email]

Calls == {Call(op) : op \in PlainOps} \cup {LoginCall(m) : m \in Emails}

\* googleLogin and appleLogin are exposed as mutateAsync, whose promise
\* rejects when the mutation fails; every other operation as mutate, which
\* swallows the rejection.
Exposure(op) ==
    IF op \in {"googleLogin", "appleLogin"} THEN "mutateAsync" ELSE "mutate"

\* the number of calls in flight
InFlight == BagCardinality(pending)

NoRemote == [called |-> FALSE]

Done(ev, op, arg, remote, ok, effects, ret, rejected) ==
    [ev |-> ev, op |-> op, arg |-> arg, remote |-> remote, ok |-> ok,
     effects |-> effects, ret |-> ret, rejected |-> rejected,
     after |-> "any"]

\* the event of a call starting: nothing but the remote call is made
Started == Done("start", "none", Undef, NoRemote, TRUE, <<>>, Undef, FALSE)

\* the event of call c completing
Completed(c, remote, ok, effects) ==
    Done("settle", c.op, c.arg, remote, ok, effects, Undef,
         Exposure(c.op) = "mutateAsync" /\ ~ok)

Init ==
    /\ cache = EmptyCache
    /\ pending = EmptyBag
    /\ last = Done("mount", "none", Undef, NoRemote, TRUE, <<>>, Undef, FALSE)

\* mutate(variables) / mutateAsync(variables): the remote call starts
Mutate ==
    /\ InFlight < MaxInFlight
    /\ \E c \in Calls :
        /\ pending' = pending (+) SetToBag({c})
        /\ last' = Started
        /\ UNCHANGED cache

\* the session query: it fetches when it has no data or was invalidated
SessionQuery ==
    /\ cache.invalidated \/ cache.session = UndefinedV
    /\ \E s \in ServerSessions :
        /\ cache' = setQueryData(cache, s)
        /\ last' = Done("settle", "getSession", Undef, Resolved(s), TRUE,
                        <<SetSession(s)>>, Undef, FALSE)
    /\ UNCHANGED pending

\* another view stores a query result in the shared cache
OtherQuery ==
    /\ ~cache.other
    /\ cache' = [cache EXCEPT !.other = TRUE]
    /\ last' = Done("settle", "otherQuery", Undef, NoRemote, TRUE, <<>>,
                    Undef, FALSE)
    /\ UNCHANGED pending

Login ==
    \E email \in Emails :
        \E remote \in {Resolved(r) : r \in LoginResponses(email)}
                      \cup Rejections :
            LET c == LoginCall(email)
                result == loginMutation_mutationFn(remote)
                effects == IF result.ok THEN loginMutation_onSuccess(result.val)
                           ELSE loginMutation_onError(result.val)
            IN /\ BagIn(c, pending)
               /\ pending' = pending (-) SetToBag({c})
               /\ cache' = Run(cache, effects)
               /\ last' = [Completed(c, remote, result.ok, effects) EXCEPT
                             !.after = IF last.ev = "settle"
                                          /\ last.op = "logout"
                                       THEN "logout" ELSE "any"]

\* a logout whose completion drops every other call in flight
Logout_Cancelling ==
    \E remote \in {Resolved(UndefinedV)}
                  \cup {Rejected(m) : m \in LogoutErrorMessages} :
        LET c == Call("logout")
            result == logoutMutation_mutationFn(remote)
            effects == IF result.ok THEN logoutMutation_onSuccess
                       ELSE logoutMutation_onError(result.val)
        IN /\ BagIn(c, pending)
           /\ pending' = EmptyBag
           /\ cache' = Run(cache, effects)
           /\ last' = Completed(c, remote, result.ok, effects)

Logout ==
    \E remote \in {Resolved(UndefinedV)}
                  \cup {Rejected(m) : m \in LogoutErrorMessages} :
        LET c == Call("logout")
            result == logoutMutation_mutationFn(remote)
            effects == IF result.ok THEN logoutMutation_onSuccess
                       ELSE logoutMutation_onError(result.val)
        IN /\ BagIn(c, pending)
           /\ pending' = pending (-) SetToBag({c})
           /\ cache' = Run(cache, effects)
           /\ last' = Completed(c, remote, result.ok, effects)

GoogleLogin ==
    \E remote \in {Resolved(r) : r \in GoogleLoginResponses} \cup Rejections :
        LET c == Call("googleLogin")
            effects == IF remote.ok THEN googleLogin_onSuccess(remote.val)
                       ELSE googleLogin_onError(remote.val)
        IN /\ BagIn(c, pending)
           /\ pending' = pending (-) SetToBag({c})
           /\ cache' = Run(cache, effects)
           /\ last' = Completed(c, remote, remote.ok, effects)

Register ==
    \E remote \in {Resolved(UndefinedV)} \cup Rejections :
        LET c == Call("register")
            effects == IF remote.ok THEN registerMutation_onSuccess
                       ELSE registerMutation_onError(remote.val)
        IN /\ BagIn(c, pending)
           /\ pending' = pending (-) SetToBag({c})
           /\ cache' = Run(cache, effects)
           /\ last' = Completed(c, remote, remote.ok, effects)

RegisterWithClinic ==
    \E remote \in {Resolved(r) : r \in AuthResponses} \cup Rejections :
        LET c == Call("registerWithClinic")
            effects == IF remote.ok THEN registerWithClinic_onSuccess(remote.val)
                       ELSE registerWithClinic_onError(remote.val)
        IN /\ BagIn(c, pending)
           /\ pending' = pending (-) SetToBag({c})
           /\ cache' = Run(cache, effects)
           /\ last' = Completed(c, remote, remote.ok, effects)

VerifyOTP ==
    \E remote \in {Resolved(r) : r \in AuthResponses} \cup Rejections :
        LET c == Call("verifyOTP")
            effects == IF remote.ok THEN verifyOTP_onSuccess(remote.val)
                       ELSE verifyOTP_onError(remote.val)
        IN /\ BagIn(c, pending)
           /\ pending' = pending (-) SetToBag({c})
           /\ cache' = Run(cache, effects)
           /\ last' = Completed(c, remote, remote.ok, effects)

RequestOTP ==
    \E remote \in {Resolved([success |-> TRUE, message |-> "OTP sent"])} \cup Rejections :
        LET c == Call("requestOTP")
            effects == IF remote.ok THEN requestOTP_onSuccess(remote.val)
                       ELSE requestOTP_onError(remote.val)
        IN /\ BagIn(c, pending)
           /\ pending' = pending (-) SetToBag({c})
           /\ cache' = Run(cache, effects)
           /\ last' = Completed(c, remote, remote.ok, effects)

ForgotPassword ==
    \E remote \in {Resolved(r) : r \in MessageResponses} \cup Rejections :
        LET c == Call("forgotPassword")
            effects == IF remote.ok THEN forgotPassword_onSuccess(remote.val)
                       ELSE forgotPassword_onError(remote.val)
        IN /\ BagIn(c, pending)
           /\ pending' = pending (-) SetToBag({c})
           /\ cache' = Run(cache, effects)
           /\ last' = Completed(c, remote, remote.ok, effects)

ResetPassword ==
    \E remote \in {Resolved(r) : r \in MessageResponses} \cup Rejections :
        LET c == Call("resetPassword")
            effects == IF remote.ok THEN resetPassword_onSuccess(remote.val)
                       ELSE resetPassword_onError(remote.val)
        IN /\ BagIn(c, pending)
           /\ pending' = pending (-) SetToBag({c})
           /\ cache' = Run(cache, effects)
           /\ last' = Completed(c, remote, remote.ok, effects)

SocialLogin ==
    \E remote \in {Resolved(r) : r \in AuthResponses} \cup Rejections :
        LET c == Call("socialLogin")
            effects == IF remote.ok THEN socialLogin_onSuccess(remote.val)
                       ELSE socialLogin_onError(remote.val)
        IN /\ BagIn(c, pending)
           /\ pending' = pending (-) SetToBag({c})
           /\ cache' = Run(cache, effects)
           /\ last' = Completed(c, remote, remote.ok, effects)

RequestMagicLink ==
    \E remote \in {Resolved(r) : r \in MessageResponses} \cup Rejections :
        LET c == Call("requestMagicLink")
            effects == IF remote.ok THEN requestMagicLink_onSuccess(remote.val)
                       ELSE requestMagicLink_onError(remote.val)
        IN /\ BagIn(c, pending)
           /\ pending' = pending (-) SetToBag({c})
           /\ cache' = Run(cache, effects)
           /\ last' = Completed(c, remote, remote.ok, effects)

VerifyMagicLink ==
    \E remote \in {Resolved(r) : r \in AuthResponses} \cup Rejections :
        LET c == Call("verifyMagicLink")
            effects == IF remote.ok THEN verifyMagicLink_onSuccess(remote.val)
                       ELSE verifyMagicLink_onError(remote.val)
        IN /\ BagIn(c, pending)
           /\ pending' = pending (-) SetToBag({c})
           /\ cache' = Run(cache, effects)
           /\ last' = Completed(c, remote, remote.ok, effects)

ChangePassword ==
    \E remote \in {Resolved(UndefinedV)} \cup Rejections :
        LET c == Call("changePassword")
            effects == IF remote.ok THEN changePassword_onSuccess
                       ELSE changePassword_onError(remote.val)
        IN /\ BagIn(c, pending)
           /\ pending' = pending (-) SetToBag({c})
           /\ cache' = Run(cache, effects)
           /\ last' = Completed(c, remote, remote.ok, effects)

TerminateAllSessions ==
    \E remote \in {Resolved(UndefinedV)} \cup Rejections :
        LET c == Call("terminateAllSessions")
            effects == IF remote.ok THEN terminateAllSessionsMutation_onSuccess
                       ELSE terminateAllSessionsMutation_onError(remote.val)
        IN /\ BagIn(c, pending)
           /\ pending' = pending (-) SetToBag({c})
           /\ cache' = Run(cache, effects)
           /\ last' = Completed(c, remote, remote.ok, effects)

CheckOTPStatus ==
    \E remote \in {Resolved([hasActiveOTP |-> b]) : b \in BOOLEAN} \cup Rejections :
        LET c == Call("checkOTPStatus")
            effects == IF remote.ok THEN <<>>
                       ELSE checkOTPStatus_onError(remote.val)
        IN /\ BagIn(c, pending)
           /\ pending' = pending (-) SetToBag({c})
           /\ cache' = Run(cache, effects)
           /\ last' = Completed(c, remote, remote.ok, effects)

InvalidateOTP ==
    \E remote \in {Resolved([message |-> "OTP invalidated"])} \cup Rejections :
        LET c == Call("invalidateOTP")
            effects == IF remote.ok THEN invalidateOTP_onSuccess(remote.val)
                       ELSE invalidateOTP_onError(remote.val)
        IN /\ BagIn(c, pending)
           /\ pending' = pending (-) SetToBag({c})
           /\ cache' = Run(cache, effects)
           /\ last' = Completed(c, remote, remote.ok, effects)

VerifyEmail ==
    \E remote \in {Resolved([message |-> "Email verified"])} \cup Rejections :
        LET c == Call("verifyEmail")
            effects == IF remote.ok THEN verifyEmail_onSuccess(remote.val)
                       ELSE verifyEmail_onError(remote.val)
        IN /\ BagIn(c, pending)
           /\ pending' = pending (-) SetToBag({c})
           /\ cache' = Run(cache, effects)
           /\ last' = Completed(c, remote, remote.ok, effects)

FacebookLogin ==
    \E remote \in {Resolved(r) : r \in AuthResponses} \cup Rejections :
        LET c == Call("facebookLogin")
            effects == IF remote.ok THEN facebookLogin_onSuccess(remote.val)
                       ELSE facebookLogin_onError(remote.val)
        IN /\ BagIn(c, pending)
           /\ pending' = pending (-) SetToBag({c})
           /\ cache' = Run(cache, effects)
           /\ last' = Completed(c, remote, remote.ok, effects)

\* an appleLogin wired like facebookLogin
AppleLogin_CallsRemote ==
    \E remote \in {Resolved(r) : r \in AuthResponses} \cup Rejections :
        LET c == Call("appleLogin")
            effects == IF remote.ok THEN facebookLogin_onSuccess(remote.val)
                       ELSE facebookLogin_onError(remote.val)
        IN /\ BagIn(c, pending)
           /\ pending' = pending (-) SetToBag({c})
           /\ cache' = Run(cache, effects)
           /\ last' = Completed(c, remote, remote.ok, effects)

\* mutationFn: (token) => Promise.resolve(): no remote call, no handler
AppleLogin ==
    LET c == Call("appleLogin")
    IN /\ BagIn(c, pending)
       /\ pending' = pending (-) SetToBag({c})
       /\ cache' = Run(cache, <<>>)
       /\ last' = Completed(c, NoRemote, TRUE, <<>>)

Next ==
    \/ Mutate
    \/ SessionQuery
    \/ OtherQuery
    \/ Login
    \/ GoogleLogin
    \/ Register
    \/ Logout
    \/ RegisterWithClinic
    \/ VerifyOTP
    \/ RequestOTP
    \/ ForgotPassword
    \/ ResetPassword
    \/ SocialLogin
    \/ RequestMagicLink
    \/ VerifyMagicLink
    \/ ChangePassword
    \/ TerminateAllSessions
    \/ CheckOTPStatus
    \/ InvalidateOTP
    \/ VerifyEmail
    \/ FacebookLogin
    \/ AppleLogin

Spec == Init /\ [][Next]_vars

(***************************************************************************)
(* The redirect resolver on its own: every user and redirectUrl of         *)
(* RedirectUsers x RedirectUrls is handed to the getRedirectPath that      *)
(* useAuth returns.                                                        *)
(***************************************************************************)
RedirectUsers ==
    {NullV, UndefinedV, [role |-> Undef]} \cup {[role |-> r] : r \in Role}

RedirectUrls ==
    {Undef, "", "/dashboard/x", "/settings", "/auth", "/auth/callback",
     "/auth/login", "/help/auth/faq", "https://app.example/auth/login"}

InitResolver ==
    /\ cache = EmptyCache
    /\ pending = EmptyBag
    /\ \E user \in RedirectUsers, redirectUrl \in RedirectUrls :
        last = Done("start", "getRedirectPath", Undef,
                    [user |-> user, redirectUrl |-> redirectUrl], TRUE, <<>>,
                    Undef, FALSE)

GetRedirectPath ==
    /\ last.ev = "start"
    /\ last.op = "getRedirectPath"
    /\ last' = [last EXCEPT
                  !.ev = "settle",
                  !.ret = getRedirectPath(last.remote.user,
                                          last.remote.redirectUrl)]
    /\ UNCHANGED <<cache, pending>>

NextResolver == GetRedirectPath

SpecResolver == InitResolver /\ [][NextResolver]_vars

(***************************************************************************)
(* The validation schemas (src/unnamed/part_000).  A raw field is a string *)
(* (its characters), a boolean, a number, or undefined; a schema parses a  *)
(* raw field bag into a list of issues, each with the path of a field.     *)
(* The text of an enumeration field is kept as one atom: only equality is  *)
(* applied to it.                                                          *)
(***************************************************************************)
Str(chars) == [str |-> chars]
Bool(b) == [bool |-> b]
Num(n) == [num |-> n]

IsString(v) == DOMAIN v = {"str"}
IsBoolean(v) == DOMAIN v = {"bool"}
IsNumber(v) == DOMAIN v = {"num"}

Issue(path, message) == [path |-> path, message |-> message]

\* the outcome of parsing one value: "valid", "dirty" (a check failed, the
\* value is still of its type) or "aborted" (the value is not of its type)
Parsed(issues, aborted) ==
    [status |-> IF aborted THEN "aborted"
                ELSE IF issues = <<>> THEN "valid" ELSE "dirty",
     issues |-> issues]

\* the issue of a value that is not of the expected type
InvalidType(path, v) ==
    Issue(path, IF v = UndefinedV THEN "Required" ELSE "Invalid type")

\* the character classes of the regular expressions
UpperCaseLetters ==
    {"A", "B", "C", "D", "E", "F", "G", "H", "I", "J", "K", "L", "M",
     "N", "O", "P", "Q", "R", "S", "T", "U", "V", "W", "X", "Y", "Z"}
LowerCaseLetters ==
    {"a", "b", "c", "d", "e", "f", "g", "h", "i", "j", "k", "l", "m",
     "n", "o", "p", "q", "r", "s", "t", "u", "v", "w", "x", "y", "z"}
Digits == {"0", "1", "2", "3", "4", "5", "6", "7", "8", "9"}

\* /[...]/.test(chars) for a character class
TestClass(chars, class) == \E i \in DOMAIN chars : chars[i] \in class

\* /[^...]/.test(chars) for a negated character class
TestNotClass(chars, class) == \E i \in DOMAIN chars : chars[i] \notin class

\* .min(n, message)
zMin(chars, n, message) == IF Len(chars) < n THEN <<message>> ELSE <<>>

\* .regex(re, message), the outcome of re.test given
zRegex(matches, message) == IF matches THEN <<>> ELSE <<message>>

\* .email(message): the address grammar reduced to a non-empty local part,
\* one '@', and a domain with a dot before a top-level part of two
\* characters or more
zEmail(chars, message) ==
    IF \E i \in DOMAIN chars :
          /\ chars[i] = "@"
          /\ i > 1
          /\ \A j \in DOMAIN chars : chars[j] = "@" => j = i
          /\ \E k \in (i + 2)..(Len(chars) - 2) :
                /\ chars[k] = "."
                /\ \A j \in (k + 1)..Len(chars) : chars[j] # "."
    THEN <<>> ELSE <<message>>

MinPasswordLength == 8

registerSchema_password_NoDigit(chars) ==
    zMin(chars, MinPasswordLength, "Password must be at least 8 characters")
    \o zRegex(TestClass(chars, UpperCaseLetters),
              "Password must contain at least one uppercase letter")
    \o zRegex(TestClass(chars, LowerCaseLetters),
              "Password must contain at least one lowercase letter")
    \o zRegex(TestNotClass(chars, UpperCaseLetters \cup LowerCaseLetters
                                  \cup Digits),
              "Password must contain at least one special character")

\* the checks of registerSchema.password, in order
registerSchema_password(chars) ==
    zMin(chars, MinPasswordLength, "Password must be at least 8 characters")
    \o zRegex(TestClass(chars, UpperCaseLetters),
              "Password must contain at least one uppercase letter")
    \o zRegex(TestClass(chars, LowerCaseLetters),
              "Password must contain at least one lowercase letter")
    \o zRegex(TestClass(chars, Digits),
              "Password must contain at least one number")
    \o zRegex(TestNotClass(chars, UpperCaseLetters \cup LowerCaseLetters
                                  \cup Digits),
              "Password must contain at least one special character")

\* the checks of changePasswordSchema.newPassword, in order
changePasswordSchema_newPassword(chars) ==
    zMin(chars, MinPasswordLength, "Password must be at least 8 characters")
    \o zRegex(TestClass(chars, UpperCaseLetters),
              "Password must contain at least one uppercase letter")
    \o zRegex(TestClass(chars, LowerCaseLetters),
              "Password must contain at least one lowercase letter")
    \o zRegex(TestClass(chars, Digits),
              "Password must contain at least one number")
    \o zRegex(TestNotClass(chars, UpperCaseLetters \cup LowerCaseLetters
                                  \cup Digits),
              "Password must contain at least one special character")

\* the checks of resetPasswordSchema.password
resetPasswordSchema_password(chars) ==
    zMin(chars, MinPasswordLength, "Password must be at least 8 characters")

\* z.string() followed by checks: the messages are the failed checks of a
\* string; any other value aborts
zString(path, v, messages) ==
    IF ~IsString(v) THEN Parsed(<<InvalidType(path, v)>>, TRUE)
    ELSE Parsed([i \in DOMAIN messages |-> Issue(path, messages[i])], FALSE)

\* z.enum(values).default(d): undefined takes the default; a value outside
\* the enumeration aborts
zEnumDefault(path, v, values) ==
    IF v = UndefinedV THEN Parsed(<<>>, FALSE)
    ELSE IF IsString(v) /\ v.str \in values THEN Parsed(<<>>, FALSE)
    ELSE Parsed(<<Issue(path, "Invalid enum value")>>, TRUE)

\* z.number().default(d)
zNumberDefault(path, v) ==
    IF v = UndefinedV \/ IsNumber(v) THEN Parsed(<<>>, FALSE)
    ELSE Parsed(<<InvalidType(path, v)>>, TRUE)

\* z.boolean().refine((val) => val === true, { message })
registerSchema_terms(path, v) ==
    IF ~IsBoolean(v) THEN Parsed(<<InvalidType(path, v)>>, TRUE)
    ELSE IF v.bool = TRUE THEN Parsed(<<>>, FALSE)
    ELSE Parsed(<<Issue(path, "You must accept the terms and conditions")>>,
                FALSE)

RECURSIVE IssuesOf(_)
IssuesOf(fields) ==
    IF fields = <<>> THEN <<>>
    ELSE Head(fields).issues \o IssuesOf(Tail(fields))

\* z.object({...}).refine(check, { message, path }): the fields are parsed
\* in order; when a field aborted the object is invalid and the refinement
\* is not run, otherwise it is run, also on a dirty object
zObjectRefine(fields, passes, issue) ==
    LET aborted == \E i \in DOMAIN fields : fields[i].status = "aborted"
        issues == IssuesOf(fields)
                  \o (IF aborted \/ passes THEN <<>> ELSE <<issue>>)
    IN [success |-> issues = <<>>, issues |-> issues]

\* the text of a string field; the refinement is not run on anything else
Text(v) == IF IsString(v) THEN v.str ELSE <<>>

Genders == {"MALE", "FEMALE", "OTHER"}

registerSchema_safeParse(input) ==
    zObjectRefine(
        << zString("email", input.email,
                   zEmail(Text(input.email),
                          "Please enter a valid email address")),
           zString("password", input.password,
                   registerSchema_password(Text(input.password))),
           zString("confirmPassword", input.confirmPassword, <<>>),
           zString("firstName", input.firstName,
                   zMin(Text(input.firstName), 2,
                        "First name must be at least 2 characters")),
           zString("lastName", input.lastName,
                   zMin(Text(input.lastName), 2,
                        "Last name must be at least 2 characters")),
           zString("phone", input.phone,
                   zMin(Text(input.phone), 10,
                        "Phone number must be at least 10 characters")),
           zEnumDefault("gender", input.gender, Genders),
           zEnumDefault("role", input.role, Role),
           zNumberDefault("age", input.age),
           registerSchema_terms("terms", input.terms) >>,
        Text(input.password) = Text(input.confirmPassword),
        Issue("confirmPassword", "Passwords don't match"))

resetPasswordSchema_safeParse(input) ==
    zObjectRefine(
        << zString("password", input.password,
                   resetPasswordSchema_password(Text(input.password))),
           zString("confirmPassword", input.confirmPassword, <<>>),
           zString("token", input.token, <<>>) >>,
        Text(input.password) = Text(input.confirmPassword),
        Issue("confirmPassword", "Passwords don't match"))

changePasswordSchema_safeParse(input) ==
    zObjectRefine(
        << zString("currentPassword", input.currentPassword,
                   zMin(Text(input.currentPassword), 1,
                        "Current password is required")),
           zString("newPassword", input.newPassword,
                   changePasswordSchema_newPassword(Text(input.newPassword))),
           zString("confirmPassword", input.confirmPassword, <<>>) >>,
        Text(input.newPassword) = Text(input.confirmPassword),
        Issue("confirmPassword", "Passwords don't match"))

(***************************************************************************)
(* The raw field bags handed to the schemas.                               *)
(***************************************************************************)
MaxPasswordLen == 9

\* one character of each kind: upper case, lower case, digit, and two that
\* are neither letter nor digit
PasswordChars == <<"A", "z", "5", "!", "_">>

\* the characters of S in the order of PasswordChars
CoreOf(S) == LET In(c) == c \in S IN SelectSeq(PasswordChars, In)

\* core repeated up to length n
Pad(core, n) == [i \in 1..n |-> core[((i - 1) % Len(core)) + 1]]

\* every mixture of character kinds, at every length up to MaxPasswordLen
Passwords ==
    {Pad(CoreOf(S), n) :
        S \in SUBSET {PasswordChars[i] : i \in DOMAIN PasswordChars} \ {{}},
        n \in 0..MaxPasswordLen}

StrongPassword == Pad(PasswordChars, MinPasswordLength)
FewPasswords == {StrongPassword, <<"A", "z">>}

ValidEmail == Str(<<"a", "@", "b", ".", "c", "o", "m">>)

\* a registration form filled in correctly but for the passwords
RegisterForm(password, confirmPassword) ==
    [email |-> ValidEmail, password |-> Str(password),
     confirmPassword |-> Str(confirmPassword),
     firstName |-> Str(<<"J", "o">>), lastName |-> Str(<<"L", "i">>),
     phone |-> Str(Pad(<<"5">>, 10)), gender |-> UndefinedV,
     role |-> UndefinedV, age |-> UndefinedV, terms |-> Bool(TRUE)]

RegisterInputs ==
    UNION {{RegisterForm(p, c) : c \in {p, <<>>}} : p \in Passwords}
    \cup
    {[RegisterForm(p, c) EXCEPT !.email = email, !.firstName = firstName,
                                !.gender = gender, !.role = role,
                                !.age = age, !.terms = terms] :
        p \in FewPasswords, c \in {StrongPassword, <<>>},
        email \in {ValidEmail, Str(<<"n", "o", "p", "e">>)},
        firstName \in {Str(<<"J", "o">>), Str(<<"J">>), UndefinedV},
        gender \in {UndefinedV, Str("FEMALE"), Str("X")},
        role \in {UndefinedV, Str("DOCTOR")},
        age \in {UndefinedV, Num(30)},
        terms \in {Bool(TRUE), Bool(FALSE), UndefinedV}}

ResetPasswordInputs ==
    {[password |-> Str(p), confirmPassword |-> Str(c), token |-> token] :
        p \in FewPasswords \cup {Pad(<<"z">>, n) : n \in 0..MaxPasswordLen},
        c \in {StrongPassword, <<>>, <<"z">>},
        token \in {Str(<<"t">>), UndefinedV}}

ChangePasswordInputs ==
    UNION {{[currentPassword |-> cur, newPassword |-> Str(p),
             confirmPassword |-> Str(c)] :
                c \in {p, <<>>},
                cur \in {Str(<<"o", "l", "d">>), Str(<<>>), UndefinedV}} :
           p \in Passwords}

\* a schema is about to parse a raw field bag
Parsing(schema, input) ==
    Done("start", schema, Undef, input, TRUE, <<>>, Undef, FALSE)

InitSchema ==
    /\ cache = EmptyCache
    /\ pending = EmptyBag
    /\ \/ \E input \in RegisterInputs : last = Parsing("registerSchema", input)
       \/ \E input \in ResetPasswordInputs :
            last = Parsing("resetPasswordSchema", input)
       \/ \E input \in ChangePasswordInputs :
            last = Parsing("changePasswordSchema", input)

ParseRegister ==
    /\ last.ev = "start"
    /\ last.op = "registerSchema"
    /\ last' = [last EXCEPT !.ev = "settle",
                            !.ret = registerSchema_safeParse(last.remote)]
    /\ UNCHANGED <<cache, pending>>

ParseResetPassword ==
    /\ last.ev = "start"
    /\ last.op = "resetPasswordSchema"
    /\ last' = [last EXCEPT !.ev = "settle",
                            !.ret = resetPasswordSchema_safeParse(last.remote)]
    /\ UNCHANGED <<cache, pending>>

ParseChangePassword ==
    /\ last.ev = "start"
    /\ last.op = "changePasswordSchema"
    /\ last' = [last EXCEPT !.ev = "settle",
                            !.ret = changePasswordSchema_safeParse(last.remote)]
    /\ UNCHANGED <<cache, pending>>

NextSchema ==
    \/ ParseRegister
    \/ ParseResetPassword
    \/ ParseChangePassword

SpecSchema == InitSchema /\ [][NextSchema]_vars

(***************************************************************************)
(* Reading the latest event.                                               *)
(***************************************************************************)
IsPush(ef) == ef.e = "push"
IsToast(ef) == ef.e = "toast"
IsCacheCall(ef) == ef.e \in {"setQueryData", "invalidateQueries", "clear"}

PushesOf(l) == SelectSeq(l.effects, IsPush)
ToastsOf(l) == SelectSeq(l.effects, IsToast)
CacheCallsOf(l) == SelectSeq(l.effects, IsCacheCall)

\* the event l is the completion of a call of op
SettledIn(l, op) == l.ev = "settle" /\ l.op = op
Settled(op) == SettledIn(last, op)

\* the message of the error the remote call of event l rejected with
RemoteRejected(l) == l.remote # NoRemote /\ ~l.remote.ok

(***************************************************************************)
(* Logout.                                                                 *)
(***************************************************************************)
SuccessToast == Toast("success", <<"Logged out successfully">>)
DegradedToast ==
    Toast("error", <<"Logged out locally, but server logout failed">>)

\* C1: whatever the remote logout call did (success, a benign
\* session-already-invalid error, a genuine failure), when the logout has
\* settled the whole cache has been cleared (no other query holds data),
\* the cached session is null, and exactly one navigation, to
\* '/auth/login', has been issued.
C1_LogoutFailsOpen ==
    Settled("logout") =>
        /\ \E i \in DOMAIN last.effects : last.effects[i] = ClearAll
        /\ ~cache.other
        /\ cache.session = NullV
        /\ PushesOf(last) = <<Push("/auth/login")>>

\* a logout whose remote call failed for good has settled
C1_Witness ==
    /\ Settled("logout")
    /\ last.remote = Rejected("Network error")
    /\ ~last.ok
    /\ cache.session = NullV

\* the error of the remote logout denotes an already-invalid session: its
\* message contains "session", or it is the unauthorized (401) error
SessionAlreadyInvalid(error) ==
    \/ Includes(error.message, "session")
    \/ Includes(error.message, "401")

ProfileDefaults == {"firstName", "lastName", "phone", "gender", "address"}
KeptUserFields == {"id", "email", "role", "name"}

\* a profile field the response does not carry (undefined, null or empty)
Missing(v) == v \in {Undef, Nul, ""}

\* the remote login call of event l returned a response with a user
LoginReturnedUser(l) ==
    /\ SettledIn(l, "login")
    /\ l.remote.ok
    /\ IsObject(l.remote.val.user)

\* C3: when the remote login call returns a response with a user, the
\* cached session becomes that response with the user normalized (missing
\* firstName, lastName, phone, gender, address empty, missing dateOfBirth
\* null, role and the other fields as returned), one navigation goes to the
\* dashboard of the user's role whatever redirectUrl the response has, and
\* a welcome notification containing a non-empty firstName is shown.
C3_LoginSuccess ==
    LoginReturnedUser(last) =>
        LET r == last.remote.val
            u == r.user
            s == cache.session
            toasts == ToastsOf(last)
        IN /\ IsObject(s)
           /\ s.token = r.token
           /\ s.redirectUrl = r.redirectUrl
           /\ s.message = r.message
           /\ DOMAIN s.user = DOMAIN u
           /\ \A f \in KeptUserFields : s.user[f] = u[f]
           /\ \A f \in ProfileDefaults :
                s.user[f] = IF Missing(u[f]) THEN "" ELSE u[f]
           /\ s.user.dateOfBirth =
                IF Missing(u.dateOfBirth) THEN Nul ELSE u.dateOfBirth
           /\ last.ok
           /\ u.role \in Role =>
                PushesOf(last) = <<Push(getDashboardByRole(u.role))>>
           /\ Len(toasts) = 1
           /\ toasts[1].kind = "success"
           /\ IncludesChars(Flat(toasts[1].text), Chars("Welcome back"))
           /\ ~Missing(u.firstName) =>
                IncludesChars(Flat(toasts[1].text), Chars(u.firstName))

\* login with c@d.com answered with a PATIENT user and a redirectUrl: the
\* session holds the user, the navigation went to the patient dashboard
C3_Witness ==
    /\ LoginReturnedUser(last)
    /\ last.remote.val.redirectUrl = "/dashboard/x"
    /\ cache.session.user.role = "PATIENT"
    /\ PushesOf(last) = <<Push("/patient/dashboard")>>
    /\ ToastsOf(last) = <<Toast("success", <<"Welcome back", ", ", "Al", "!">>)>>

\* the message a failed login carries
LoginFailureMessage(l) ==
    IF l.remote.ok THEN "Invalid user data received"
    ELSE IF Missing(l.remote.val.message) THEN "Login failed"
    ELSE l.remote.val.message

\* C4: a login that fails, because the remote call rejects or because its
\* response has no user, shows one error notification carrying the
\* message, issues no navigation and leaves the cache as it was.
C4_LoginFailure ==
    [][(SettledIn(last', "login") /\ ~LoginReturnedUser(last')) =>
          /\ ~last'.ok
          /\ ToastsOf(last') = <<Toast("error", <<LoginFailureMessage(last')>>)>>
          /\ PushesOf(last') = <<>>
          /\ cache' = cache]_vars

\* a login answered without a user failed while a session was cached
C4_Witness ==
    /\ SettledIn(last, "login")
    /\ last.remote.ok
    /\ ~IsObject(last.remote.val.user)
    /\ ~last.ok
    /\ IsObject(cache.session)

\* every value the session cache entry may hold as a whole: no data, null,
\* a server session, or one login response (user normalized)
WholeSessions ==
    {UndefinedV, NullV} \cup ServerSessions
    \cup {loginMutation_mutationFn(Resolved(r)).val :
            r \in {x \in UNION {LoginResponses(m) : m \in Emails} :
                     IsObject(x.user)}}

\* C5: with several logins in flight, the cached session is at every
\* moment one whole value (a login response, or what it held before),
\* never a mixture of two responses; a login that succeeds replaces it by
\* its own response, a login that fails leaves it, so that after all have
\* settled it is the response of the login that succeeded last.
C5_LastSuccessWins ==
    /\ [](cache.session \in WholeSessions)
    /\ [][SettledIn(last', "login") =>
            cache'.session =
                IF last'.ok
                THEN loginMutation_mutationFn(last'.remote).val
                ELSE cache.session]_vars

\* the login of c@d.com succeeded over the session of a@b.com's login
\* while another login of a@b.com was still in flight
C5_Witness ==
    /\ SettledIn(last, "login")
    /\ last.arg = "c@d.com"
    /\ last.ok
    /\ BagIn(LoginCall("a@b.com"), pending)
    /\ cache.session = loginMutation_mutationFn(last.remote).val
    /\ cache.session.token = "tok-c"

(***************************************************************************)
(* Every operation.                                                        *)
(***************************************************************************)
\* the operations useAuth returns
ExposedOps == PlainOps \cup {"login"}

\* C6: for every operation useAuth returns, a rejected remote call is
\* turned into a notification and the failure never reaches the caller:
\* the promise the caller was handed does not reject.
C6_NoFailurePropagates ==
    (last.ev = "settle" /\ last.op \in ExposedOps /\ RemoteRejected(last)) =>
        /\ ToastsOf(last) # <<>>
        /\ ~last.rejected

(***************************************************************************)
(* The redirect resolver.                                                  *)
(***************************************************************************)
\* an explicit redirect was given
Provided(redirectUrl) == redirectUrl \notin {Undef, Nul, ""}

\* the redirect leads into the authentication section: '/auth/' occurs in it
TargetsAuth(redirectUrl) == Includes(redirectUrl, "/auth/")

HasRole(user) == IsObject(user) /\ user.role \in Role

\* C7: getRedirectPath(user, redirectUrl) is the redirectUrl unchanged when
\* one is provided that does not lead into the authentication section,
\* also for a user with a role; otherwise the dashboard of user.role when
\* the user has a role; otherwise '/auth/login'.  A redirect into the
\* authentication section is never what the first case returns.
C7_RedirectPriority ==
    (last.ev = "settle" /\ last.op = "getRedirectPath") =>
        LET user == last.remote.user
            redirectUrl == last.remote.redirectUrl
            explicit == Provided(redirectUrl) /\ ~TargetsAuth(redirectUrl)
        IN /\ explicit => last.ret = redirectUrl
           /\ (~explicit /\ HasRole(user)) =>
                /\ last.ret = getDashboardByRole(user.role)
                /\ last.ret # redirectUrl
           /\ (~explicit /\ ~HasRole(user)) => last.ret = "/auth/login"

\* a DOCTOR with an explicit redirect outside the authentication section
\* is sent to the explicit redirect
C7_Witness ==
    /\ last.ev = "settle"
    /\ last.op = "getRedirectPath"
    /\ last.remote = [user |-> [role |-> "DOCTOR"],
                      redirectUrl |-> "/dashboard/x"]
    /\ last.ret = "/dashboard/x"

(***************************************************************************)
(* The flows that end in a redirect.                                       *)
(***************************************************************************)
RedirectingOps ==
    {"verifyOTP", "socialLogin", "verifyMagicLink", "googleLogin",
     "facebookLogin"}

\* C8: when the remote call of verifyOTP, socialLogin, verifyMagicLink,
\* googleLogin or facebookLogin succeeds, the session query is invalidated
\* and the one navigation issued goes to the path the redirect resolver
\* gives for the response's user and redirectUrl.
C8_VerifyRedirects ==
    (last.ev = "settle" /\ last.op \in RedirectingOps /\ last.remote.ok) =>
        /\ cache.invalidated
        /\ CacheCallsOf(last) = <<Invalidate>>
        /\ PushesOf(last) =
             <<Push(getRedirectPath(last.remote.val.user,
                                    last.remote.val.redirectUrl))>>

\* a magic link answered with a PATIENT and a redirect into the
\* authentication section: the navigation went to the patient dashboard
C8_Witness ==
    /\ Settled("verifyMagicLink")
    /\ last.remote.ok
    /\ last.remote.val.redirectUrl = "/auth/callback"
    /\ PushesOf(last) = <<Push("/patient/dashboard")>>
    /\ cache.invalidated

(***************************************************************************)
(* Session termination.                                                    *)
(***************************************************************************)
\* C9: when terminateAllSessions has settled, with the remote call
\* succeeded or failed, the client state is cleared: no query of the cache
\* holds data and the cached session is absent; after a success a
\* navigation to '/auth/login' has been issued too.
C9_TerminateClears ==
    Settled("terminateAllSessions") =>
        /\ ~cache.other
        /\ ~IsObject(cache.session)
        /\ last.ok => PushesOf(last) = <<Push("/auth/login")>>

(***************************************************************************)
(* The flows that only send something.                                     *)
(***************************************************************************)
SendingOps == {"requestOTP", "requestMagicLink", "forgotPassword"}

\* C10: a successful requestOTP, requestMagicLink or forgotPassword shows
\* the server's message and does nothing else: no navigation, and no call
\* that writes, invalidates or clears the cached session.
C10_SendOnlyNotifies ==
    (last.ev = "settle" /\ last.op \in SendingOps /\ last.remote.ok) =>
        /\ Len(ToastsOf(last)) = 1
        /\ Provided(last.remote.val.message) =>
             ToastsOf(last) = <<Toast("success", <<last.remote.val.message>>)>>
        /\ PushesOf(last) = <<>>
        /\ CacheCallsOf(last) = <<>>

(***************************************************************************)
(* Registration.                                                           *)
(***************************************************************************)
\* C11: when a register whose remote call succeeded settles, exactly one
\* navigation, to the login path, is issued and the user is not logged in:
\* the handler makes no call that writes, invalidates or clears the cache,
\* and the cache (session included) is after the completion what it was
\* before it.
C11_RegisterNoLogin ==
    [][(SettledIn(last', "register") /\ last'.remote.ok) =>
          /\ last'.ok
          /\ PushesOf(last') = <<Push(LoginPath)>>
          /\ CacheCallsOf(last') = <<>>
          /\ cache' = cache]_vars

\* a register succeeded while a session with a user was cached: the session
\* is still there and the navigation went to the login path
C11_Witness ==
    /\ Settled("register")
    /\ last.remote.ok
    /\ PushesOf(last) = <<Push("/auth/login")>>
    /\ IsObject(cache.session)
    /\ IsObject(cache.session.user)
    /\ ~cache.invalidated

RegisteredPath == "/auth/login?registered=true"

\* C12: when a registerWithClinic whose remote call succeeded settles, the
\* session query is invalidated and exactly one navigation is issued: to
\* the dashboard of the returned user's role when the response has a user
\* with a role, whatever redirectUrl it has; else to the returned
\* redirectUrl when one is present, also one that leads into the
\* authentication section; else to '/auth/login?registered=true'.
C12_ClinicNavigation ==
    (Settled("registerWithClinic") /\ last.remote.ok) =>
        LET r == last.remote.val
        IN /\ cache.invalidated
           /\ CacheCallsOf(last) = <<Invalidate>>
           /\ PushesOf(last) =
                IF HasRole(r.user)
                THEN <<Push(getDashboardByRole(r.user.role))>>
                ELSE IF Provided(r.redirectUrl)
                THEN <<Push(r.redirectUrl)>>
                ELSE <<Push(RegisteredPath)>>

\* a clinic registration answered with a DOCTOR and an explicit redirect:
\* the navigation went to the doctor dashboard, not to the redirect
C12_Witness ==
    /\ Settled("registerWithClinic")
    /\ last.remote.ok
    /\ last.remote.val.redirectUrl = "/dashboard/x"
    /\ PushesOf(last) = <<Push("/doctor/dashboard")>>
    /\ cache.invalidated

(***************************************************************************)
(* The cached session.                                                     *)
(***************************************************************************)
\* C13: in every reachable state, a cached session that holds a user holds
\* a user whose role is one of the Role set; no login response is written
\* to the session cache with a user that has no role or a role outside
\* the set.
C13_SessionUserHasRole ==
    (IsObject(cache.session) /\ IsObject(cache.session.user)) =>
        cache.session.user.role \in Role

(***************************************************************************)
(* Failures.                                                               *)
(***************************************************************************)
\* the operations that clear client state also when the server fails
ClearingOps == {"logout", "terminateAllSessions"}

\* C14: for every operation other than logout and terminateAllSessions, the
\* completion of a call whose remote call rejected changes no client
\* state: the handler makes no call that writes, invalidates or clears
\* the cache, the cache is what it was, no navigation is issued, and the
\* one effect is an error notification.
C14_FailureChangesNothing ==
    [][(/\ last'.ev = "settle"
        /\ last'.op \in ExposedOps \ ClearingOps
        /\ RemoteRejected(last')) =>
          /\ ~last'.ok
          /\ cache' = cache
          /\ CacheCallsOf(last') = <<>>
          /\ PushesOf(last') = <<>>
          /\ Len(last'.effects) = 1
          /\ IsToast(last'.effects[1])
          /\ last'.effects[1].kind = "error"]_vars

\* a verifyOTP whose remote call rejected settled while a session with a
\* user was cached: the session is kept and the error was shown
C14_Witness ==
    /\ Settled("verifyOTP")
    /\ last.remote = Rejected("Network error")
    /\ last.effects = <<Toast("error", <<"Network error">>)>>
    /\ IsObject(cache.session)
    /\ IsObject(cache.session.user)

(***************************************************************************)
(* The validation schemas.                                                 *)
(***************************************************************************)
Schemas == {"registerSchema", "resetPasswordSchema", "changePasswordSchema"}

\* the schema of event l has parsed its input
ParsedBy(l, schemas) == l.ev = "settle" /\ l.op \in schemas

\* the field of the (new) password in the input of event l
PasswordField(l) ==
    IF l.op = "changePasswordSchema" THEN "newPassword" ELSE "password"

\* the messages of the issues the parse of event l attached to field
MessagesAt(l, field) ==
    {l.ret.issues[i].message :
        i \in {j \in DOMAIN l.ret.issues : l.ret.issues[j].path = field}}

\* C15: the registration schema rejects every input in which password
\* differs from confirmPassword, with an error attached to
\* confirmPassword, whichever of the two is wrong and whatever the other
\* fields contain; the reset-password and change-password schemas do the
\* same for the new password and its confirmation.
C15_MismatchFlagged ==
    (/\ ParsedBy(last, Schemas)
     /\ last.remote[PasswordField(last)] # last.remote.confirmPassword) =>
        /\ ~last.ret.success
        /\ MessagesAt(last, "confirmPassword") # {}

PasswordConditions == {"length", "upper", "lower", "digit", "special"}

\* the condition holds of the password p
Meets(p, condition) ==
    CASE condition = "length" -> Len(p) >= 8
      [] condition = "upper" -> \E i \in DOMAIN p : p[i] \in UpperCaseLetters
      [] condition = "lower" -> \E i \in DOMAIN p : p[i] \in LowerCaseLetters
      [] condition = "digit" -> \E i \in DOMAIN p : p[i] \in Digits
      [] condition = "special" ->
            \E i \in DOMAIN p :
                p[i] \notin UpperCaseLetters \cup LowerCaseLetters \cup Digits

\* the message of each condition
ConditionMessage(condition) ==
    CASE condition = "length" -> "Password must be at least 8 characters"
      [] condition = "upper" ->
            "Password must contain at least one uppercase letter"
      [] condition = "lower" ->
            "Password must contain at least one lowercase letter"
      [] condition = "digit" -> "Password must contain at least one number"
      [] condition = "special" ->
            "Password must contain at least one special character"

\* C16: the registration and change-password schemas accept a password
\* (attach no error to its field) if and only if it has length 8 or more,
\* an upper-case letter, a lower-case letter, a digit and a character that
\* is neither letter nor digit; the errors attached to the field are
\* exactly the messages of the conditions that are missing, and the five
\* messages are distinct.
C16_StrongPassword ==
    ParsedBy(last, {"registerSchema", "changePasswordSchema"}) =>
        LET field == PasswordField(last)
            p == last.remote[field].str
            missing == {c \in PasswordConditions : ~Meets(p, c)}
        IN /\ MessagesAt(last, field) = {ConditionMessage(c) : c \in missing}
           /\ (MessagesAt(last, field) = {}) <=>
                (\A c \in PasswordConditions : Meets(p, c))
           /\ Cardinality({ConditionMessage(c) : c \in missing})
                = Cardinality(missing)

\* the registration schema was given a seven-character password with an
\* upper-case letter, a lower-case letter and a special character, and
\* attached the messages of the length and of the digit to it
C16_Witness ==
    /\ ParsedBy(last, {"registerSchema"})
    /\ last.remote.password = Str(<<"A", "z", "!", "A", "z", "!", "A">>)
    /\ MessagesAt(last, "password") =
         {"Password must be at least 8 characters",
          "Password must contain at least one number"}

(***************************************************************************)
(* The stub.                                                               *)
(***************************************************************************)
\* C17: appleLogin is a stub: its completion makes no remote call and
\* succeeds (the promise handed to the caller resolves), and it has no
\* effect: no cache write, invalidation or clear, no navigation, no
\* notification; the cache is what it was.
C17_AppleLoginStub ==
    [][SettledIn(last', "appleLogin") =>
          /\ last'.remote = NoRemote
          /\ last'.ok
          /\ ~last'.rejected
          /\ last'.effects = <<>>
          /\ cache' = cache]_vars

\* an appleLogin settled while a session with a user was cached
C17_Witness ==
    /\ Settled("appleLogin")
    /\ last.remote = NoRemote
    /\ last.ok
    /\ IsObject(cache.session)
    /\ IsObject(cache.session.user)

(***************************************************************************)
(* Order within a handler, and overlapping calls.                          *)
(***************************************************************************)
\* the cache as the i-th effect of event l finds it, the handler having
\* started on cache c
CacheAt(c, l, i) == Run(c, SubSeq(l.effects, 1, i - 1))

\* C18: within one completion handler the cache is updated before the
\* navigation is issued: when a successful login issues its navigation to
\* the dashboard the cached session already holds that login's user, and
\* when a logout, or a successful terminateAllSessions, issues its
\* navigation to the login path the cache has already been cleared and the
\* session is already absent.
C18_CacheBeforeNavigation ==
    [][\A i \in DOMAIN last'.effects :
          IsPush(last'.effects[i]) =>
            LET atPush == CacheAt(cache, last', i)
            IN /\ (SettledIn(last', "login") /\ last'.ok) =>
                    /\ IsObject(atPush.session)
                    /\ atPush.session.user =
                         loginMutation_mutationFn(last'.remote).val.user
               /\ (\/ SettledIn(last', "logout")
                   \/ SettledIn(last', "terminateAllSessions") /\ last'.ok) =>
                    /\ last'.effects[i] = Push(LoginPath)
                    /\ \E j \in 1..(i - 1) : last'.effects[j] = ClearAll
                    /\ ~atPush.other
                    /\ atPush.session = NullV]_vars

\* a login succeeded: its handler wrote the session, then navigated to the
\* doctor dashboard
C18_Witness ==
    /\ Settled("login")
    /\ last.ok
    /\ last.effects[1] = SetSession(cache.session)
    /\ last.effects[2] = Push("/doctor/dashboard")
    /\ cache.session.user.role = "DOCTOR"

\* C19: no call in flight is cancelled by another: the completion of a call
\* takes that call, and no other, out of the calls in flight; and when the
\* event after a logout's completion is the success of a login that was in
\* flight across it, the login's handler still runs: the session, null
\* after the logout, holds the login's response with its user, and the
\* navigation to the dashboard is issued.
C19_NoCancellation ==
    /\ [][(last'.ev = "settle" /\ last'.op \in ExposedOps) =>
            LET c == [op |-> last'.op, arg |-> last'.arg]
            IN /\ BagIn(c, pending)
               /\ pending' = pending (-) SetToBag({c})]_vars
    /\ [][(Settled("logout") /\ LoginReturnedUser(last')) =>
            /\ cache.session = NullV
            /\ last'.ok
            /\ last'.after = "logout"
            /\ cache'.session = loginMutation_mutationFn(last'.remote).val
            /\ IsObject(cache'.session.user)
            /\ PushesOf(last') =
                 <<Push(getDashboardByRole(cache'.session.user.role))>>]_vars

\* a login that was in flight when the logout settled has succeeded as the
\* next event: the session holds its user again
C19_Witness ==
    /\ Settled("login")
    /\ last.after = "logout"
    /\ last.ok
    /\ IsObject(cache.session)
    /\ cache.session.user.email = last.arg
    /\ PushesOf(last) = <<Push("/doctor/dashboard")>>

====
